---- MODULE Spec2Model ----
(***************************************************************************)
(* FlatCAM cutout tool (flatcamTools/ToolCutOut.py): the two button        *)
(* handlers on_freeform_cutout and on_rectangular_cutout, run on the GUI   *)
(* thread, one at a time, against the application's object collection     *)
(* (specification Spec), and the G-code postprocessor line_xyz             *)
(* (postprocessors/line_xyz.py): its entry points, called on the Parameter *)
(* Context of an export job (specification SpecExport).                    *)
(* SpecOutline applies geo_init of the rectangular cutout to a wider range *)
(* of values, and SpecTcl runs the set_origin command of                   *)
(* tclCommands/TclCommandSetOrigin.py.                                     *)
(*                                                                         *)
(* Numbers.  Every float the handlers compute from the modelled inputs is  *)
(* an exact multiple of 1/8, so a float v is held as the integer 8 * v.    *)
(* Texts typed into the entry fields are tuples of one-character strings;  *)
(* object names and messages are strings.                                  *)
(***************************************************************************)
EXTENDS Integers, Sequences, FiniteSets, TLC

VARIABLES collection,      \* app.collection: the objects of the project, in order
          inform,          \* messages given to app.inform.emit by the latest handler run
          should_we_save,  \* app.should_we_save
          run,             \* what the latest handler run read, called and how it ended
          nruns,           \* handler runs so far
          context,         \* the Parameter Context of the export job
          line_xyz,        \* the postprocessor object: its attributes
          call,            \* the latest entry point called and what it returned
          ntoolchanges,    \* toolchange_code calls of the job so far
          outline,         \* geo_init of the rectangular cutout: its inputs and its result
          tcl              \* the set_origin command: its arguments and its outcome

cutout_vars == <<collection, inform, should_we_save, run, nruns>>

export_vars == <<context, line_xyz, call, ntoolchanges>>

vars == <<collection, inform, should_we_save, run, nruns, context,
         line_xyz, call, ntoolchanges, outline, tcl>>

\* Handler runs explored from the initial project.
MaxRuns == 1

(***************************************************************************)
(* Floats                                                                  *)
(***************************************************************************)
Scale == 2 * 2 * 2

Num(n) == n * Scale

Half(v) == v \div 2

Quarter(v) == v \div 4

abs(v) == IF v < 0 THEN -v ELSE v

(***************************************************************************)
(* Entry texts and float()                                                 *)
(***************************************************************************)
Digits == <<"0", "1", "2", "3", "4", "5", "6", "7", "8", "9">>

IsDigit(c) == \E d \in 1..10 : Digits[d] = c

DigitVal(c) == (CHOOSE d \in 1..10 : Digits[d] = c) - 1

RECURSIVE DigitsToInt(_)
DigitsToInt(ds) ==
    IF ds = <<>> THEN 0
    ELSE 10 * DigitsToInt(SubSeq(ds, 1, Len(ds) - 1)) + DigitVal(ds[Len(ds)])

RECURSIVE Pow10(_)
Pow10(k) == IF k = 0 THEN 1 ELSE 10 * Pow10(k - 1)

ValueError == [ok |-> FALSE, val |-> 0]

\* float(text) for decimal literals: [sign] digits [. digits] or [sign] . digits;
\* any other text over the modelled alphabet raises ValueError.
float(text) ==
    LET signed == Len(text) > 0 /\ text[1] \in {"-", "+"}
        body   == IF signed THEN Tail(text) ELSE text
        dots   == {i \in 1..Len(body) : body[i] = "."}
        ds     == SelectSeq(body, IsDigit)
        wellformed == /\ \A i \in 1..Len(body) : body[i] = "." \/ IsDigit(body[i])
                      /\ Cardinality(dots) <= 1
                      /\ Len(ds) > 0
        k      == IF dots = {} THEN 0 ELSE Len(body) - (CHOOSE i \in dots : TRUE)
        mag    == (DigitsToInt(ds) * Scale) \div Pow10(k)
    IN IF wellformed
       THEN [ok |-> TRUE, val |-> IF signed /\ text[1] = "-" THEN -mag ELSE mag]
       ELSE ValueError

replace_nothing(text, old, new) == text

\* str.replace(old, new)
replace(text, old, new) ==
    [i \in 1..Len(text) |-> IF text[i] = old THEN new ELSE text[i]]

\* try: float(text) / except ValueError: try: float(text.replace(',', '.'))
parse_entry(text) ==
    LET direct == float(text)
    IN IF direct.ok THEN direct ELSE float(replace(text, ",", "."))

\* Texts the user may have left in the three entry fields.
DiaTexts == {<<"2", ".", "0">>, <<"1", ".", "0">>, <<"1", ",", "5">>,
             <<"a", "b", "c">>, <<"0">>, <<"-", "1">>}

MarginTexts == {<<"1", ".", "0">>, <<"0", ".", "0">>, <<>>}

GapsizeTexts == {<<"2", ".", "0">>, <<"1", ".", "0">>, <<"1", ",", "0", ",", "0">>}

EntryTexts == DiaTexts \cup MarginTexts \cup GapsizeTexts

\* parse_entry of every text, computed once.
parsed == [text \in EntryTexts |-> parse_entry(text)]

Unread == [read |-> FALSE, text |-> <<>>, ok |-> FALSE, val |-> 0]

\* The outcome of reading one entry field: its text and what parsing it gave.
ReadEntry(text) ==
    [read |-> TRUE, text |-> text, ok |-> parsed[text].ok, val |-> parsed[text].val]

(***************************************************************************)
(* Messages                                                                *)
(***************************************************************************)
MsgCouldNotRetrieve(name) == "[ERROR_NOTCL]Could not retrieve object: " \o name

MsgNoObjectSelected ==
    "[ERROR_NOTCL]There is no object selected for Cutout.\nSelect one and try again."

MsgObjectNotFound == "[ERROR_NOTCL]Object not found: None"

MsgDia == "[WARNING_NOTCL] Tool diameter value is missing or wrong format. Add it and retry."

MsgMargin == "[WARNING_NOTCL] Margin value is missing or wrong format. Add it and retry."

MsgGapsize == "[WARNING_NOTCL] Gap size value is missing or wrong format. Add it and retry."

MsgGapsMissing == "[WARNING_NOTCL] Number of gaps value is missing. Add it and retry."

MsgDiaZeroFreeform ==
    "[WARNING_NOTCL]Tool Diameter is zero value. Change it to a positive integer."

MsgDiaZeroRectangular ==
    "[ERROR_NOTCL]Tool Diameter is zero value. Change it to a positive integer."

MsgGapsValue ==
    "[WARNING_NOTCL] Gaps value can be only one of: 'lr', 'tb', '2lr', '2tb', 4 or 8. Fill in a correct value and retry. "

MsgMultiGeo ==
    "[ERROR]Cutout operation cannot be done on a multi-geo Geometry.\nOptionally, this Multi-geo Geometry can be converted to Single-geo Geometry,\nand after that perform Cutout."

MsgFreeformDone == "[success] Any form CutOut operation finished."

MsgRectangularDone == "[success] Rectangular CutOut operation finished."

ParseWarningDiaOnly(field) == MsgDia

\* The warning emitted when the named entry field does not parse.
ParseWarning(field) ==
    CASE field = "dia" -> MsgDia
      [] field = "margin" -> MsgMargin
      [] field = "gapsize" -> MsgGapsize

SuccessMessages == {MsgFreeformDone, MsgRectangularDone}

(***************************************************************************)
(* Objects of the collection and their geometry                            *)
(*                                                                         *)
(* An object is [name, kind, multigeo, solid_geometry]; name stands for    *)
(* options["name"].  A solid_geometry is held symbolically: the shape it   *)
(* was built as, its bounding box, and the polygons subtracted from it     *)
(* since, in order.                                                        *)
(***************************************************************************)
SourceShape(id, bbox) ==
    [shape |-> [kind |-> "source", of |-> id, dist |-> 0, lines |-> <<>>],
     bbox  |-> bbox,
     cuts  |-> <<>>]

\* obj.bounds(): (xmin, ymin, xmax, ymax) of the object's solid_geometry.
bounds(obj) == obj.solid_geometry.bbox

\* obj.subtract_polygon(pts): the solid geometry minus the closed polygon pts.
subtract_polygon(geometry, pts) ==
    [geometry EXCEPT !.cuts = Append(@, pts)]

\* cutout_obj.solid_geometry.convex_hull, then .buffer(dist)
convex_hull_buffer(geometry, dist) ==
    [shape |-> [kind |-> "convex_hull.buffer", of |-> geometry.shape.of,
                dist |-> dist, lines |-> <<>>],
     bbox  |-> <<geometry.bbox[1] - dist, geometry.bbox[2] - dist,
                 geometry.bbox[3] + dist, geometry.bbox[4] + dist>>,
     cuts  |-> <<>>]

Min(S) == CHOOSE m \in S : \A n \in S : m <= n

Max(S) == CHOOSE m \in S : \A n \in S : m >= n

\* cascaded_union([LineString(segment) for segment in cuts])
cascaded_union(chains) ==
    LET xs == UNION {{chains[c][i][1] : i \in 1..Len(chains[c])} : c \in 1..Len(chains)}
        ys == UNION {{chains[c][i][2] : i \in 1..Len(chains[c])} : c \in 1..Len(chains)}
    IN [shape |-> [kind |-> "lines", of |-> "", dist |-> 0, lines |-> chains],
        bbox  |-> <<Min(xs), Min(ys), Max(xs), Max(ys)>>,
        cuts  |-> <<>>]

\* Position of the first object called name in the collection; 0 stands for None.
None == 0

get_by_name(coll, name) ==
    IF \E i \in 1..Len(coll) : coll[i].name = name
    THEN Min({i \in 1..Len(coll) : coll[i].name = name})
    ELSE None

\* app.new_object('geometry', name, initialize): a new geometry object whose
\* solid_geometry is what the initializer gave it, registered at the end.
new_object(coll, name, geometry) ==
    Append(coll, [name |-> name, kind |-> "geometry", multigeo |-> FALSE,
                  solid_geometry |-> geometry])

IsFlatCAMGeometryNever(obj) == FALSE

\* isinstance(cutout_obj, FlatCAMGeometry)
IsFlatCAMGeometry(obj) == obj.kind = "geometry"

IsMultigeoNever(obj) == FALSE

\* cutout_obj.multigeo is True
IsMultigeo(obj) == obj.multigeo = TRUE

(***************************************************************************)
(* Freeform cutout: the bridge rectangles                                  *)
(***************************************************************************)
\* subtract_rectangle's pts
rectangle_pts(x0, y0, x1, y1) == <<<<x0, y0>>, <<x1, y0>>, <<x1, y1>>, <<x0, y1>>>>

freeform_px(b, margin) == Half(b[1] + b[3]) + margin

freeform_py(b, margin) == Half(b[2] + b[4]) + margin

freeform_lenghtx(b, margin) == (b[3] - b[1]) + (margin * 2)

freeform_lenghty(b, margin) == (b[4] - b[2]) + (margin * 2)

freeform_gapsize_whole_dia(gapsize, dia) == Half(gapsize) + dia

\* gapsize = gapsize / 2 + (dia / 2)
freeform_gapsize(gapsize, dia) == Half(gapsize) + Half(dia)

\* if gaps == '8' or gaps == '2LR'
gaps_2lr(gaps) == gaps = "8" \/ gaps = "2LR"

\* if gaps == '8' or gaps == '2TB'
gaps_2tb(gaps) == gaps = "8" \/ gaps = "2TB"

gaps_lr_only(gaps) == gaps = "LR"

\* if gaps == '4' or gaps == 'LR'
gaps_lr(gaps) == gaps = "4" \/ gaps = "LR"

\* if gaps == '4' or gaps == 'TB'
gaps_tb(gaps) == gaps = "4" \/ gaps = "TB"

\* The polygons handed to subtract_polygon, in call order.
freeform_subtractions(gaps, b, margin, gapsize_in, dia) ==
    LET xmin == b[1]
        ymin == b[2]
        xmax == b[3]
        ymax == b[4]
        px == freeform_px(b, margin)
        py == freeform_py(b, margin)
        lenghtx == freeform_lenghtx(b, margin)
        lenghty == freeform_lenghty(b, margin)
        gapsize == freeform_gapsize(gapsize_in, dia)
    IN (IF gaps_2lr(gaps)
        THEN <<rectangle_pts(xmin - gapsize, py - gapsize + Quarter(lenghty),
                             xmax + gapsize, py + gapsize + Quarter(lenghty)),
               rectangle_pts(xmin - gapsize, py - gapsize - Quarter(lenghty),
                             xmax + gapsize, py + gapsize - Quarter(lenghty))>>
        ELSE <<>>)
       \o
       (IF gaps_2tb(gaps)
        THEN <<rectangle_pts(px - gapsize + Quarter(lenghtx), ymin - gapsize,
                             px + gapsize + Quarter(lenghtx), ymax + gapsize),
               rectangle_pts(px - gapsize - Quarter(lenghtx), ymin - gapsize,
                             px + gapsize - Quarter(lenghtx), ymax + gapsize)>>
        ELSE <<>>)
       \o
       (IF gaps_lr(gaps)
        THEN <<rectangle_pts(xmin - gapsize, py - gapsize, xmax + gapsize, py + gapsize)>>
        ELSE <<>>)
       \o
       (IF gaps_tb(gaps)
        THEN <<rectangle_pts(px - gapsize, ymin - gapsize, px + gapsize, ymax + gapsize)>>
        ELSE <<>>)

FreeformGaps == {"LR", "TB", "2LR", "2TB", "4", "8"}

(***************************************************************************)
(* Rectangular cutout: geo_init                                            *)
(***************************************************************************)
\* real_margin = margin + (dia / 2)
real_margin(margin, dia) == margin + Half(dia)

real_gap_size_no_dia(gapsize, dia) == gapsize

\* real_gap_size = gapsize + dia
real_gap_size(gapsize, dia) == gapsize + dia

\* The expanded bounding rectangle (minx, miny, maxx, maxy).
expanded_bounds(b, margin, dia) ==
    <<b[1] - real_margin(margin, dia), b[2] - real_margin(margin, dia),
      b[3] + real_margin(margin, dia), b[4] + real_margin(margin, dia)>>

\* pts; pts[i] of the source is rectangular_pts(...)[i + 1].
rectangular_pts(b, margin, gapsize, dia) ==
    LET e == expanded_bounds(b, margin, dia)
        minx == e[1]
        miny == e[2]
        maxx == e[3]
        maxy == e[4]
        midx == Half(minx + maxx)
        midy == Half(miny + maxy)
        hgap == Half(real_gap_size(gapsize, dia))
    IN <<<<midx - hgap, maxy>>,
         <<minx, maxy>>,
         <<minx, midy + hgap>>,
         <<minx, midy - hgap>>,
         <<minx, miny>>,
         <<midx - hgap, miny>>,
         <<midx + hgap, miny>>,
         <<maxx, miny>>,
         <<maxx, midy - hgap>>,
         <<maxx, midy + hgap>>,
         <<maxx, maxy>>,
         <<midx + hgap, maxy>>>>

\* The keys of cases.
RectangularGaps == {"TB", "LR", "4"}

cases_lr_as_tb(gaps) ==
    CASE gaps = "TB" -> <<<<0, 1, 4, 5>>, <<6, 7, 10, 11>>>>
      [] gaps = "LR" -> <<<<0, 1, 4, 5>>, <<6, 7, 10, 11>>>>
      [] gaps = "4"  -> <<<<0, 1, 2>>, <<3, 4, 5>>, <<6, 7, 8>>, <<9, 10, 11>>>>

\* cases[gaps], as indices into pts (those of the source, counted from 0).
cases(gaps) ==
    CASE gaps = "TB" -> <<<<0, 1, 4, 5>>, <<6, 7, 10, 11>>>>
      [] gaps = "LR" -> <<<<9, 10, 1, 2>>, <<3, 4, 7, 8>>>>
      [] gaps = "4"  -> <<<<0, 1, 2>>, <<3, 4, 5>>, <<6, 7, 8>>, <<9, 10, 11>>>>

\* cuts = cases[gaps]: the chains as point lists.
rectangular_cuts(gaps, pts) ==
    [c \in 1..Len(cases(gaps)) |->
        [i \in 1..Len(cases(gaps)[c]) |-> pts[cases(gaps)[c][i] + 1]]]

(***************************************************************************)
(* State                                                                   *)
(***************************************************************************)
NoRun ==
    [op |-> "none", name |-> "", cutout_obj |-> "", bounds |-> <<>>,
     dia |-> Unread, margin |-> Unread, gapsize |-> Unread,
     gaps_read |-> FALSE, gaps |-> "",
     result |-> "", subtract_polygon |-> <<>>, new_object |-> <<>>]

\* The project the tool is opened on: a Gerber board, a Geometry outline and a
\* multi-geo Geometry.
InitialCollection ==
    <<[name |-> "top", kind |-> "gerber", multigeo |-> FALSE,
       solid_geometry |-> SourceShape("top", <<Num(0), Num(0), Num(20), Num(10)>>)],
      [name |-> "outline", kind |-> "geometry", multigeo |-> FALSE,
       solid_geometry |-> SourceShape("outline", <<Num(0), Num(0), Num(10), Num(10)>>)],
      [name |-> "multi", kind |-> "geometry", multigeo |-> TRUE,
       solid_geometry |-> SourceShape("multi", <<Num(0), Num(0), Num(10), Num(10)>>)]>>

\* The project as the tool finds it, before any handler has run.
InitialProject ==
    /\ collection = InitialCollection
    /\ inform = <<>>
    /\ should_we_save = FALSE
    /\ run = NoRun
    /\ nruns = 0

\* No entry point of the postprocessor has been called.
NoCall == [entry |-> "", p |-> <<>>, type |-> "", text |-> <<>>, locals |-> <<>>]

\* The class attributes of the postprocessor.
line_xyz_class == [coordinate_format |-> "%.*f", feedrate_format |-> "%.*f"]

\* No export job exists while the tool's handlers run.
NoExport ==
    /\ context = <<>>
    /\ line_xyz = line_xyz_class
    /\ call = NoCall
    /\ ntoolchanges = 0

\* geo_init has not been applied.
NoOutline ==
    [done |-> FALSE, bounds |-> <<>>, margin |-> 0, gapsize |-> 0, dia |-> 0, gaps |-> "",
     pts |-> <<>>, cuts |-> <<>>]

\* No set_origin command has been executed.
NoCommand ==
    [done |-> FALSE, args |-> <<>>, raised |-> "", tcl_error |-> <<>>, returned |-> "",
     on_set_zero_click |-> <<>>, inform |-> <<>>]

\* Neither geo_init alone nor the Tcl shell is at work.
NoShell ==
    /\ outline = NoOutline
    /\ tcl = NoCommand

Init ==
    /\ InitialProject
    /\ NoExport
    /\ NoShell

\* obj_combo.currentText(): an object of the project, or "" with nothing to select.
NameInputs == {collection[i].name : i \in 1..Len(collection)} \cup {""}

\* gaps.get_value(): an item of the combo box, "" with none current; or TypeError.
TypeError == "<TypeError>"

FreeformGapsInputs == FreeformGaps \cup {"", TypeError}

\* gaps_rect_radio.get_value(): the checked choice, None with none checked; or TypeError.
RectangularGapsInputs == RectangularGaps \cup {"None", TypeError}

\* The handler returns or raises: its effects become the state.
Finish(r, msgs, coll, save) ==
    /\ run' = r
    /\ inform' = msgs
    /\ collection' = coll
    /\ should_we_save' = save
    /\ nruns' = nruns + 1
    /\ UNCHANGED export_vars
    /\ UNCHANGED <<outline, tcl>>

RECURSIVE SubtractAll(_, _)
SubtractAll(geometry, polygons) ==
    IF polygons = <<>> THEN geometry
    ELSE SubtractAll(subtract_polygon(geometry, Head(polygons)), Tail(polygons))

\* Calls of obj_.subtract_polygon(pts) on the object called name, in order.
SubtractCalls(name, polygons) ==
    [k \in 1..Len(polygons) |-> [obj |-> name, pts |-> polygons[k]]]

(***************************************************************************)
(* on_freeform_cutout                                                      *)
(***************************************************************************)
on_freeform_cutout ==
    /\ nruns < MaxRuns
    /\ \E name \in NameInputs :
       \E raises \in IF get_by_name(collection, name) = None THEN BOOLEAN ELSE {FALSE} :
       LET i  == get_by_name(collection, name)
           r1 == [NoRun EXCEPT !.op = "on_freeform_cutout", !.name = name,
                               !.result = "return"]
       IN
       IF i = None /\ raises
       THEN Finish([r1 EXCEPT !.cutout_obj = "raised"],
                   <<MsgCouldNotRetrieve(name)>>, collection, should_we_save)
       ELSE IF i = None
       THEN Finish([r1 EXCEPT !.cutout_obj = "None"],
                   <<MsgNoObjectSelected>>, collection, should_we_save)
       ELSE
       \E diaText \in DiaTexts :
       LET r2 == [r1 EXCEPT !.cutout_obj = "found", !.dia = ReadEntry(diaText)] IN
       IF ~r2.dia.ok
       THEN Finish(r2, <<ParseWarning("dia")>>, collection, should_we_save)
       ELSE
       \E marginText \in MarginTexts :
       LET r3 == [r2 EXCEPT !.margin = ReadEntry(marginText)] IN
       IF ~r3.margin.ok
       THEN Finish(r3, <<ParseWarning("margin")>>, collection, should_we_save)
       ELSE
       \E gapsizeText \in GapsizeTexts :
       LET r4 == [r3 EXCEPT !.gapsize = ReadEntry(gapsizeText)] IN
       IF ~r4.gapsize.ok
       THEN Finish(r4, <<ParseWarning("gapsize")>>, collection, should_we_save)
       ELSE
       \E gaps \in FreeformGapsInputs :
       LET r5 == [r4 EXCEPT !.gaps_read = TRUE, !.gaps = gaps]
           dia == r5.dia.val
           margin == r5.margin.val
           gapsize == r5.gapsize.val
           cutout_obj == collection[i]
       IN
       IF gaps = TypeError
       THEN Finish(r5, <<MsgGapsMissing>>, collection, should_we_save)
       ELSE IF dia = 0
       THEN Finish(r5, <<MsgDiaZeroFreeform>>, collection, should_we_save)
       ELSE IF gaps \notin FreeformGaps
       THEN Finish(r5, <<MsgGapsValue>>, collection, should_we_save)
       ELSE IF IsMultigeo(cutout_obj)
       THEN Finish(r5, <<MsgMultiGeo>>, collection, should_we_save)
       ELSE
       LET b == bounds(cutout_obj)
           polygons == freeform_subtractions(gaps, b, margin, gapsize, dia)
           outname == cutout_obj.name \o "_cutout"
           created == ~IsFlatCAMGeometry(cutout_obj)
           coll1 == IF created
                    THEN new_object(collection, outname,
                             convex_hull_buffer(cutout_obj.solid_geometry,
                                                margin + abs(Half(dia))))
                    ELSE [collection EXCEPT ![i].name = @ \o "_cutout"]
           target == IF created THEN get_by_name(coll1, outname) ELSE i
           coll2 == [coll1 EXCEPT ![target].solid_geometry = SubtractAll(@, polygons)]
           r6 == [r5 EXCEPT !.bounds = b,
                            !.new_object = IF created
                                           THEN <<[kind |-> "geometry", name |-> outname]>>
                                           ELSE <<>>,
                            !.subtract_polygon = SubtractCalls(coll2[target].name, polygons)]
       IN
       \* the collection's policy for a name already taken is not part of the tool
       /\ created => get_by_name(collection, outname) = None
       /\ Finish(r6, <<MsgFreeformDone>>, coll2, TRUE)

(***************************************************************************)
(* on_rectangular_cutout                                                   *)
(***************************************************************************)
on_rectangular_cutout ==
    /\ nruns < MaxRuns
    /\ \E name \in NameInputs :
       \E raises \in IF get_by_name(collection, name) = None THEN BOOLEAN ELSE {FALSE} :
       LET i  == get_by_name(collection, name)
           r1 == [NoRun EXCEPT !.op = "on_rectangular_cutout", !.name = name,
                               !.result = "return"]
       IN
       IF i = None /\ raises
       THEN Finish([r1 EXCEPT !.cutout_obj = "raised"],
                   <<MsgCouldNotRetrieve(name)>>, collection, should_we_save)
       ELSE
       \* a cutout_obj of None is reported, and the handler goes on
       LET m1 == IF i = None THEN <<MsgObjectNotFound>> ELSE <<>> IN
       \E diaText \in DiaTexts :
       LET r2 == [r1 EXCEPT !.cutout_obj = IF i = None THEN "None" ELSE "found",
                            !.dia = ReadEntry(diaText)] IN
       IF ~r2.dia.ok
       THEN Finish(r2, Append(m1, ParseWarning("dia")), collection, should_we_save)
       ELSE
       \E marginText \in MarginTexts :
       LET r3 == [r2 EXCEPT !.margin = ReadEntry(marginText)] IN
       IF ~r3.margin.ok
       THEN Finish(r3, Append(m1, ParseWarning("margin")), collection, should_we_save)
       ELSE
       \E gapsizeText \in GapsizeTexts :
       LET r4 == [r3 EXCEPT !.gapsize = ReadEntry(gapsizeText)] IN
       IF ~r4.gapsize.ok
       THEN Finish(r4, Append(m1, ParseWarning("gapsize")), collection, should_we_save)
       ELSE
       \E gaps \in RectangularGapsInputs :
       LET r5 == [r4 EXCEPT !.gaps_read = TRUE, !.gaps = gaps]
           dia == r5.dia.val
           margin == r5.margin.val
           gapsize == r5.gapsize.val
       IN
       IF gaps = TypeError
       THEN Finish(r5, Append(m1, MsgGapsMissing), collection, should_we_save)
       ELSE IF dia = 0
       THEN Finish(r5, Append(m1, MsgDiaZeroRectangular), collection, should_we_save)
       ELSE IF i = None
       THEN \* None has no attribute multigeo
            Finish([r5 EXCEPT !.result = "AttributeError"], m1, collection, should_we_save)
       ELSE IF IsMultigeo(collection[i])
       THEN Finish(r5, Append(m1, MsgMultiGeo), collection, should_we_save)
       ELSE
       LET cutout_obj == collection[i]
           b == bounds(cutout_obj)
           outname == name \o "_cutout"
           pts == rectangular_pts(b, margin, gapsize, dia)
           r6 == [r5 EXCEPT !.bounds = b,
                            !.new_object = <<[kind |-> "geometry", name |-> outname]>>]
       IN
       \* the collection's policy for a name already taken is not part of the tool
       /\ get_by_name(collection, outname) = None
       /\ IF gaps \in RectangularGaps
          THEN Finish(r6, Append(m1, MsgRectangularDone),
                      new_object(collection, outname,
                                 cascaded_union(rectangular_cuts(gaps, pts))),
                      should_we_save)
          ELSE \* cases[gaps] raises KeyError inside the initializer: new_object
               \* either lets it through or reports it and returns
               \E caught \in BOOLEAN :
               IF caught
               THEN Finish(r6, Append(m1, MsgRectangularDone), collection, should_we_save)
               ELSE Finish([r6 EXCEPT !.result = "KeyError"], m1, collection,
                           should_we_save)

Next ==
    \/ on_freeform_cutout
    \/ on_rectangular_cutout

Spec == Init /\ [][Next]_vars

(***************************************************************************)
(* Properties                                                              *)
(***************************************************************************)
Emitted(m) == \E k \in 1..Len(inform) : inform[k] = m

Succeeded == \E k \in 1..Len(inform) : inform[k] \in SuccessMessages

\* The run ended by reporting a warning or an error.
EndedInWarningOrError == inform # <<>> /\ inform[Len(inform)] \notin SuccessMessages

Freeform == run.op = "on_freeform_cutout"

Rectangular == run.op = "on_rectangular_cutout"

\* The last n polygons subtracted from a geometry.
LastCuts(geometry, n) ==
    SubSeq(geometry.cuts, Len(geometry.cuts) - n + 1, Len(geometry.cuts))

BridgeCount(gaps) ==
    CASE gaps \in {"LR", "TB"} -> 1
      [] gaps \in {"4", "2LR", "2TB"} -> 2
      [] gaps = "8" -> 4

\* C1: a successful freeform run makes exactly LR 1, TB 1, 4 2, 2LR 2, 2TB 2, 8 4
\* subtract_polygon calls, all on the cutout object (the object then called
\* <name>_cutout, whose geometry ends with these cuts); a freeform run that ends
\* in a warning or an error makes none.
C1_FreeformSubtractCounts ==
    Freeform =>
        /\ Succeeded =>
              /\ run.gaps \in FreeformGaps
              /\ Len(run.subtract_polygon) = BridgeCount(run.gaps)
              /\ \A k \in 1..Len(run.subtract_polygon) :
                    run.subtract_polygon[k].obj = run.name \o "_cutout"
              /\ LET target == collection[get_by_name(collection, run.name \o "_cutout")]
                 IN LastCuts(target.solid_geometry, Len(run.subtract_polygon))
                       = [k \in 1..Len(run.subtract_polygon) |-> run.subtract_polygon[k].pts]
        /\ EndedInWarningOrError => run.subtract_polygon = <<>>

C1_Witness ==
    /\ Freeform
    /\ Succeeded
    /\ run.gaps = "8"
    /\ Len(run.subtract_polygon) = 4

\* The scenario of C3: dia = 2.0, margin = 1.0, gapsize = 2.0, gaps = 'LR' on a
\* source with bounds (0, 0, 20, 10), run to the end.
C3_Scenario ==
    /\ Freeform
    /\ Succeeded
    /\ run.dia.val = Num(2)
    /\ run.margin.val = Num(1)
    /\ run.gapsize.val = Num(2)
    /\ run.gaps = "LR"
    /\ run.bounds = <<Num(0), Num(0), Num(20), Num(10)>>

\* The run subtracted exactly one polygon, the rectangle [x0, x1] x [y0, y1].
SubtractedOnly(x0, y0, x1, y1) ==
    /\ Len(run.subtract_polygon) = 1
    /\ {run.subtract_polygon[1].pts[k] : k \in 1..4}
          = {<<x0, y0>>, <<x1, y0>>, <<x1, y1>>, <<x0, y1>>}

\* C3 as claimed: in the scenario exactly one rectangle is subtracted, with X range
\* [-3, 23] and Y range [4, 8] (center py = 6, half-height 2.0).
C3_AsClaimed ==
    C3_Scenario => SubtractedOnly(Num(-3), Num(4), Num(23), Num(8))

\* C3 amended: in the scenario exactly one rectangle is subtracted, with X range
\* [-2, 22] (the bounds widened by the half gap 2.0) and Y range [4, 8], whose
\* center is py = 6 and whose half-height is 2.0.
C3_FreeformScenario ==
    C3_Scenario => SubtractedOnly(Num(-2), Num(6) - Num(2), Num(22), Num(6) + Num(2))

C3_Witness == C3_Scenario /\ Len(run.subtract_polygon) = 1

\* The geometry object a rectangular run registered.
RectangularResult == collection[get_by_name(collection, run.new_object[1].name)]

\* A rectangular run that built its outline.
RectangularBuilt ==
    /\ Rectangular
    /\ Succeeded
    /\ run.gaps \in RectangularGaps

Sides == {"top", "bottom", "left", "right"}

Horizontal(side) == side \in {"top", "bottom"}

\* p lies on the given side of the rectangle e = (minx, miny, maxx, maxy).
OnSide(side, p, e) ==
    CASE side = "top"    -> p[2] = e[4] /\ e[1] <= p[1] /\ p[1] <= e[3]
      [] side = "bottom" -> p[2] = e[2] /\ e[1] <= p[1] /\ p[1] <= e[3]
      [] side = "left"   -> p[1] = e[1] /\ e[2] <= p[2] /\ p[2] <= e[4]
      [] side = "right"  -> p[1] = e[3] /\ e[2] <= p[2] /\ p[2] <= e[4]

OnPerimeter(p, e) == \E side \in Sides : OnSide(side, p, e)

IsCorner(p, e) == p[1] \in {e[1], e[3]} /\ p[2] \in {e[2], e[4]}

\* Position of p along a side, and the position of the side's midpoint.
Along(side, p) == IF Horizontal(side) THEN p[1] ELSE p[2]

SideMid(side, e) == IF Horizontal(side) THEN Half(e[1] + e[3]) ELSE Half(e[2] + e[4])

\* The ends of the chains, each with the chain it ends.
ChainEnds(chains) ==
    {<<c, chains[c][1]>> : c \in 1..Len(chains)}
        \cup {<<c, chains[c][Len(chains[c])]>> : c \in 1..Len(chains)}

\* The segments the chains are drawn as.
ChainSegments(chains) ==
    UNION {{<<chains[c][k], chains[c][k + 1]>> : k \in 1..(Len(chains[c]) - 1)} :
           c \in 1..Len(chains)}

\* A notch: two chain ends on the same side, with the stretch of the side between.
Notches(chains, e) ==
    {n \in Sides \X ChainEnds(chains) \X ChainEnds(chains) :
        /\ OnSide(n[1], n[2][2], e)
        /\ OnSide(n[1], n[3][2], e)
        /\ Along(n[1], n[2][2]) < Along(n[1], n[3][2])}

\* The axis-parallel segment seg touches the side strictly between the notch's ends.
PassesThrough(seg, n, e) ==
    LET lo == Along(n[1], n[2][2])
        hi == Along(n[1], n[3][2])
        a  == Along(n[1], seg[1])
        b  == Along(n[1], seg[2])
        line == IF n[1] = "top" THEN e[4] ELSE IF n[1] = "bottom" THEN e[2]
                ELSE IF n[1] = "left" THEN e[1] ELSE e[3]
        u  == IF Horizontal(n[1]) THEN seg[1][2] ELSE seg[1][1]
        v  == IF Horizontal(n[1]) THEN seg[2][2] ELSE seg[2][1]
    IN /\ Min({a, b}) < hi
       /\ Max({a, b}) > lo
       /\ Min({u, v}) <= line
       /\ line <= Max({u, v})

NotchedSides(gaps) ==
    CASE gaps = "TB" -> {"top", "bottom"}
      [] gaps = "LR" -> {"left", "right"}
      [] gaps = "4"  -> Sides

C4_Scenario ==
    /\ Rectangular
    /\ Succeeded
    /\ run.dia.val = Num(1)
    /\ run.margin.val = Num(0)
    /\ run.gapsize.val = Num(1)
    /\ run.gaps = "4"
    /\ run.bounds = <<Num(0), Num(0), Num(10), Num(10)>>

\* C4: in the scenario the outline is exactly 4 chains of 3 points, all on the
\* rectangle from (-0.5, -0.5) to (10.5, 10.5); each chain runs from an end at
\* coordinate 4 or 6 of one side through a corner to an end at coordinate 4 or 6
\* of the next side, the four chains take the four corners, and so each side is
\* left open from 4 to 6: a gap of width 2.0 centered on the side's midpoint 5.
C4_RectangularScenario ==
    C4_Scenario =>
        LET chains == RectangularResult.solid_geometry.shape.lines
            lo     == Half(Num(-1))
            hi     == Half(Num(21))
            e      == <<lo, lo, hi, hi>>
            ends   == {x[2] : x \in ChainEnds(chains)}
        IN /\ Len(chains) = 4
           /\ \A c \in 1..4 :
                 /\ Len(chains[c]) = 3
                 /\ \A k \in 1..3 : OnPerimeter(chains[c][k], e)
                 /\ IsCorner(chains[c][2], e)
                 /\ ~IsCorner(chains[c][1], e)
                 /\ ~IsCorner(chains[c][3], e)
                 \* each leg is straight along one side, from the corner to the gap
                 /\ \A k \in {1, 3} :
                       \/ /\ chains[c][k][1] = chains[c][2][1]
                          /\ abs(chains[c][k][2] - chains[c][2][2]) = Num(4) + Half(Num(1))
                       \/ /\ chains[c][k][2] = chains[c][2][2]
                          /\ abs(chains[c][k][1] - chains[c][2][1]) = Num(4) + Half(Num(1))
           /\ {chains[c][2] : c \in 1..4} = {<<lo, lo>>, <<lo, hi>>, <<hi, lo>>, <<hi, hi>>}
           /\ ends = {<<Num(4), hi>>, <<Num(6), hi>>, <<Num(4), lo>>, <<Num(6), lo>>,
                      <<lo, Num(4)>>, <<lo, Num(6)>>, <<hi, Num(4)>>, <<hi, Num(6)>>}

C4_Witness ==
    /\ C4_Scenario
    /\ Len(RectangularResult.solid_geometry.shape.lines) = 4

\* A handler ran in this step.
HandlerStep == nruns' = nruns + 1

\* Nothing of the project changed in this step, and the run called neither
\* new_object nor subtract_polygon.
NothingChanged ==
    /\ collection' = collection
    /\ should_we_save' = should_we_save
    /\ run'.new_object = <<>>
    /\ run'.subtract_polygon = <<>>

NoSuccessEmitted == \A k \in 1..Len(inform') : inform'[k] \notin SuccessMessages

\* The run got past every check that precedes the multi-geo check of its handler.
ReachedMultigeoCheck(r) ==
    /\ r.cutout_obj = "found"
    /\ r.dia.ok
    /\ r.margin.ok
    /\ r.gapsize.ok
    /\ r.gaps_read
    /\ r.gaps # TypeError
    /\ r.dia.val # 0
    /\ r.op = "on_freeform_cutout" => r.gaps \in FreeformGaps

\* C5: in both handlers, when the resolved source has multigeo = True and every
\* earlier input is valid, the run emits the multi-geo error message and nothing
\* else, returns, and creates, renames and changes nothing.
C5_MultigeoRejected ==
    [][(/\ HandlerStep
        /\ ReachedMultigeoCheck(run')
        /\ collection[get_by_name(collection, run'.name)].multigeo = TRUE)
       => (/\ inform' = <<MsgMultiGeo>>
           /\ run'.result = "return"
           /\ NothingChanged)]_vars

C5_Witness ==
    /\ Freeform
    /\ ReachedMultigeoCheck(run)
    /\ run.name = "multi"
    /\ inform = <<MsgMultiGeo>>

\* C6 as claimed: in both handlers, when the source name does not resolve (the
\* lookup raises or returns None) the run reports exactly one error message and
\* aborts at once: it reads no entry field, emits nothing more and changes nothing.
C6_UnresolvedAborts ==
    [][(HandlerStep /\ run'.cutout_obj \in {"raised", "None"})
       => (/\ Len(inform') = 1
           /\ ~run'.dia.read
           /\ ~run'.margin.read
           /\ ~run'.gapsize.read
           /\ ~run'.gaps_read
           /\ run'.result = "return"
           /\ NothingChanged)]_vars

\* A field was read and did not parse, even after the comma fallback.
ParseFailed(r, field) ==
    CASE field = "dia" -> r.dia.read /\ ~r.dia.ok
      [] field = "margin" -> r.margin.read /\ ~r.margin.ok
      [] field = "gapsize" -> r.gapsize.read /\ ~r.gapsize.ok

FieldWarning == [dia |-> MsgDia, margin |-> MsgMargin, gapsize |-> MsgGapsize]

Fields == {"dia", "margin", "gapsize"}

\* C7: in both handlers, when tool diameter, margin or gap size does not parse
\* even after the comma fallback, the run ends by emitting the warning of that
\* field and of no other field, emits no success message, returns, and creates,
\* renames and changes nothing.  The three warnings are three different messages.
C7_ParseFailureAborts ==
    [][\A field \in Fields :
        (HandlerStep /\ ParseFailed(run', field))
        => (/\ inform' # <<>>
            /\ inform'[Len(inform')] = FieldWarning[field]
            /\ \A other \in Fields \ {field} :
                  \A k \in 1..Len(inform') : inform'[k] # FieldWarning[other]
            /\ MsgDia # MsgMargin /\ MsgMargin # MsgGapsize /\ MsgDia # MsgGapsize
            /\ NoSuccessEmitted
            /\ run'.result = "return"
            /\ NothingChanged)]_vars

C7_Witness ==
    /\ Rectangular
    /\ run.dia.ok
    /\ run.margin.ok
    /\ ParseFailed(run, "gapsize")
    /\ inform = <<MsgGapsize>>

WarningMessages ==
    {MsgDia, MsgMargin, MsgGapsize, MsgGapsMissing, MsgDiaZeroFreeform, MsgGapsValue}

\* C8: a tool diameter typed as "1,5" is read as 1.5: the run goes on to the
\* margin without the tool-diameter warning, and with the other inputs valid it
\* emits no warning at all; a tool diameter typed as "abc" fails both parses: the
\* run ends with the tool-diameter warning and reads nothing more.  A gap size
\* typed as "1,0,0" becomes "1.0.0", which does not parse either.
C8_CommaFallback ==
    /\ (run.dia.read /\ run.dia.text = <<"1", ",", "5">>) =>
          /\ run.dia.ok
          /\ run.dia.val = Num(1) + Half(Num(1))
          /\ run.margin.read
          /\ ~Emitted(MsgDia)
          /\ (/\ run.margin.ok
              /\ run.gapsize.ok
              /\ run.gaps_read
              /\ run.gaps \in (IF Freeform THEN FreeformGaps ELSE RectangularGaps))
             => \A k \in 1..Len(inform) : inform[k] \notin WarningMessages
    /\ (run.dia.read /\ run.dia.text = <<"a", "b", "c">>) =>
          /\ ~run.dia.ok
          /\ inform # <<>>
          /\ inform[Len(inform)] = MsgDia
          /\ ~run.margin.read
          /\ run.result = "return"
    /\ (run.gapsize.read /\ run.gapsize.text = <<"1", ",", "0", ",", "0">>) =>
          /\ ~run.gapsize.ok
          /\ Emitted(MsgGapsize)

C8_Witness ==
    /\ run.dia.read
    /\ run.dia.text = <<"1", ",", "5">>
    /\ run.dia.val = Num(1) + Half(Num(1))
    /\ Succeeded

\* C9 as claimed: in both handlers a request whose tool diameter is zero or
\* negative is rejected before any mutation: nothing is created, renamed or changed
\* and no success is reported.
C9_NonPositiveDiaRejected ==
    [][(HandlerStep /\ run'.dia.ok /\ run'.dia.val <= 0 /\ run'.gaps_read)
       => (NothingChanged /\ NoSuccessEmitted)]_vars

\* C10 as claimed: in both handlers a gap layout mode outside the handler's
\* enumeration is rejected with a message, before any mutation and before
\* new_object is called.
C10_UnknownGapsRejected ==
    [][(/\ HandlerStep
        /\ run'.cutout_obj = "found"
        /\ run'.gaps_read
        /\ run'.gaps # TypeError
        /\ run'.gaps \notin (IF run'.op = "on_freeform_cutout"
                             THEN FreeformGaps ELSE RectangularGaps))
       => (/\ inform' # <<>>
           /\ NoSuccessEmitted
           /\ run'.result = "return"
           /\ NothingChanged)]_vars

(***************************************************************************)
(* postprocessors/line_xyz.py: texts.  A text is the sequence of its       *)
(* fragments: each digit, sign and decimal point of a number is a fragment *)
(* of its own, "\n" is a fragment, and the other fragments are pieces of   *)
(* the literals of the source, none of them holding a line break.          *)
(***************************************************************************)
NL == "\n"

RECURSIVE IntChars(_)
\* The decimal digits of a natural number.
IntChars(n) ==
    IF n < 10 THEN <<Digits[n + 1]>>
    ELSE IntChars(n \div 10) \o <<Digits[(n % 10) + 1]>>

RECURSIVE Repeat(_, _)
Repeat(c, k) == IF k <= 0 THEN <<>> ELSE <<c>> \o Repeat(c, k - 1)

\* The digits of n, zero-filled on the left to the given width.
ZeroFill(n, width) == Repeat("0", width - Len(IntChars(n))) \o IntChars(n)

\* |v| * 10^decimals rounded to an integer, halves to the even neighbour.
RoundHalfEven(num, den) ==
    LET q == num \div den
        r == num % den
    IN  IF 2 * r > den \/ (2 * r = den /\ q % 2 = 1) THEN q + 1 ELSE q

\* '%.*f' % (decimals, v): fixed-point notation with that many decimals.
format_fixed(decimals, v) ==
    LET q == RoundHalfEven(abs(v) * Pow10(decimals), Scale)
    IN  (IF v < 0 THEN <<"-">> ELSE <<>>)
        \o IntChars(q \div Pow10(decimals))
        \o (IF decimals = 0 THEN <<>>
            ELSE <<".">> \o ZeroFill(q % Pow10(decimals), decimals))

\* The decimals of the fraction k/Scale, without trailing zeros.
FractionChars(k) ==
    LET thousandths == (k * Pow10(3)) \div Scale
    IN  IF thousandths % 100 = 0 THEN IntChars(thousandths \div 100)
        ELSE IF thousandths % 10 = 0 THEN ZeroFill(thousandths \div 10, 2)
        ELSE ZeroFill(thousandths, 3)

\* str(v) of a float: the shortest digits that give the value back.
str_float(v) ==
    (IF v < 0 THEN <<"-">> ELSE <<>>)
    \o IntChars(abs(v) \div Scale) \o <<".">> \o FractionChars(abs(v) % Scale)

\* None of a field of the context, and a field that is set.
NoneValue == <<>>

Some(v) == <<v>>

\* str(field) of a field that is a float or None.
str(field) == IF field = NoneValue THEN <<"None">> ELSE str_float(field[1])

\* '{: >9s}'.format(text): spaces on the left up to nine characters.
pad9(text) == Repeat(" ", 9 - Len(text)) \o text

\* str.lower() and str.upper() of the unit names.
lower(units) == IF units = "IN" THEN "in" ELSE IF units = "MM" THEN "mm" ELSE units

upper(units) == IF units = "in" THEN "IN" ELSE IF units = "mm" THEN "MM" ELSE units

(***************************************************************************)
(* The Parameter Context: the fields the entry points read.  A field that  *)
(* may be None holds NoneValue or Some(value); xy_toolchange holds         *)
(* NoneValue or the pair of its coordinates.                               *)
(***************************************************************************)
Units == {"IN", "MM"}

JobTypes == {"Gerber", "Excellon", "Geometry", "Excellon Geometry"}

\* Tool numbers of a job; Tools_in_use has no entry for the second of them.
Tools == {1, 2}

\* p['options']['Tools_in_use']: tool number, diameter and drill count of each tool.
Tools_in_use == <<<<1, Num(1), 5>>, <<3, Num(1) \div 4, 2>>>>

DecimalsInputs == {2, 4}

Context(units, type, xy_toolchange, startz, f_plunge, dwelltime, spindlespeed, decimals) ==
    [units |-> units,
     options |-> [type |-> type, tool_dia |-> Num(1),
                  xmin |-> Num(0), xmax |-> Num(20), ymin |-> Num(0), ymax |-> Num(10),
                  Tools_in_use |-> Tools_in_use],
     xy_toolchange |-> xy_toolchange,
     startz |-> startz,
     f_plunge |-> f_plunge,
     dwelltime |-> dwelltime,
     spindlespeed |-> spindlespeed,
     coords_decimals |-> decimals,
     fr_decimals |-> 2,
     x |-> Num(11) \div 8, y |-> Num(9) \div 4,
     oldx |-> Num(1) \div 2, oldy |-> Num(3) \div 4,
     z_move |-> Num(2), z_cut |-> -(Num(3) \div 2), z_toolchange |-> Num(15),
     z_end |-> Num(10),
     tool |-> 1, toolC |-> Num(1),
     feedrate |-> Num(120), z_feedrate |-> Num(60), feedrate_rapid |-> Num(1500),
     multidepth |-> TRUE, z_depthpercut |-> Num(1) \div 2,
     steps_per_circle |-> 64,
     pp_excellon_name |-> "line_xyz", pp_geometry_name |-> "line_xyz"]

\* The contexts an export job is constructed with.
Contexts ==
    {Context(units, type, xy, startz, f_plunge, dwelltime, spindlespeed, decimals) :
        units \in Units, type \in JobTypes,
        xy \in {NoneValue, <<Num(5), Num(15) \div 2>>},
        startz \in {NoneValue, Some(Num(3))},
        f_plunge \in BOOLEAN,
        dwelltime \in {NoneValue, Some(Num(1))},
        spindlespeed \in {Some(Num(1000))},
        decimals \in DecimalsInputs}

\* The truth value of a field that is a number or None.
Truthy(field) == field # NoneValue /\ field[1] # 0

(***************************************************************************)
(* postprocessors/line_xyz.py: the entry points.  Each takes the           *)
(* postprocessor object and the Parameter Context and returns a value: a   *)
(* text, or None.                                                          *)
(***************************************************************************)
\* A returned text; locals holds the local variables of toolchange_code.
Str(text) == [type |-> "str", text |-> text, locals |-> <<>>]

\* The value of a call that falls off the end of the function.
ReturnsNone == [type |-> "NoneType", text |-> <<>>, locals |-> <<>>]

\* format % (decimals, v) with one of the formats of the class.
Percent(format, decimals, v) ==
    CASE format = "%.*f" -> format_fixed(decimals, v)

comment_unclosed(parts) == <<"(">> \o parts \o <<NL>>

\* A comment line of the header.
comment(parts) == <<"(">> \o parts \o <<")", NL>>

\* math.ceil(a / b) of two positive floats.
ceil_div(a, b) == (a + b - 1) \div b

start_code(self, p) ==
    LET units == <<" ", lower(p.units)>>
        coords_xy == p.xy_toolchange
        type == p.options.type
        xmin == format_fixed(p.coords_decimals, p.options.xmin)
        xmax == format_fixed(p.coords_decimals, p.options.xmax)
        ymin == format_fixed(p.coords_decimals, p.options.ymin)
        ymax == format_fixed(p.coords_decimals, p.options.ymax)
    IN Str(
        (IF type = "Geometry"
            THEN comment(<<"TOOL DIAMETER: ">> \o str_float(p.options.tool_dia) \o units)
            ELSE <<>>)
        \o comment(<<"Feedrate: ">> \o str_float(p.feedrate) \o units \o <<"/min">>)
        \o (IF type = "Geometry"
            THEN comment(<<"Feedrate_Z: ">> \o str_float(p.z_feedrate) \o units \o <<"/min">>)
            ELSE <<>>)
        \o comment(<<"Feedrate rapids ">> \o str_float(p.feedrate_rapid) \o units \o <<"/min">>)
        \o <<NL>>
        \o comment(<<"Z_Cut: ">> \o str_float(p.z_cut) \o units)
        \o (IF type = "Geometry" /\ p.multidepth = TRUE
            THEN comment(<<"DepthPerCut: ">> \o str_float(p.z_depthpercut) \o units
                         \o <<" <=>">> \o IntChars(ceil_div(abs(p.z_cut), p.z_depthpercut))
                         \o <<" passes">>)
            ELSE <<>>)
        \o comment(<<"Z_Move: ">> \o str_float(p.z_move) \o units)
        \o comment(<<"Z Toolchange: ">> \o str_float(p.z_toolchange) \o units)
        \o (IF coords_xy # NoneValue
            THEN comment(<<"X,Y Toolchange: ">> \o format_fixed(4, coords_xy[1])
                         \o <<", ">> \o format_fixed(4, coords_xy[2]) \o units)
            ELSE comment(<<"X,Y Toolchange: ", "None">> \o units))
        \o comment(<<"Z Start: ">> \o str(p.startz) \o units)
        \o comment(<<"Z End: ">> \o str_float(p.z_end) \o units)
        \o comment(<<"Steps per circle: ">> \o IntChars(p.steps_per_circle))
        \o (IF type = "Excellon" \/ type = "Excellon Geometry"
            THEN comment(<<"Postprocessor Excellon: ", p.pp_excellon_name>>)
            ELSE comment(<<"Postprocessor Geometry: ", p.pp_geometry_name>>) \o <<NL>>)
        \o comment(<<"X range: ">> \o pad9(xmin) \o <<" ... ">> \o pad9(xmax)
                   \o <<" ">> \o units)
        \o comment(<<"Y range: ">> \o pad9(ymin) \o <<" ... ">> \o pad9(ymax)
                   \o <<" ">> \o units)
        \o <<NL>>
        \o comment(<<"Spindle Speed: ">> \o str(p.spindlespeed) \o <<" RPM">>)
        \o (IF upper(p.units) = "IN" THEN <<"G20", NL>> ELSE <<"G21", NL>>)
        \o <<"G90", NL>>
        \o <<"G94", NL>>)

\* 'X' + coordinate_format % (coords_decimals, v), for the letter of an axis.
axis_word(self, p, letter, v) ==
    <<letter>> \o Percent(self.coordinate_format, p.coords_decimals, v)

startz_code(self, p) ==
    IF p.startz # NoneValue
    THEN Str(<<"G00", " ">> \o axis_word(self, p, "X", p.x)
             \o <<" ">> \o axis_word(self, p, "Y", p.y)
             \o <<" ">> \o axis_word(self, p, "Z", p.startz[1]))
    ELSE Str(<<>>)

lift_code(self, p) ==
    Str(<<"G00", " ">> \o axis_word(self, p, "X", p.x)
        \o <<" ">> \o axis_word(self, p, "Y", p.y)
        \o <<" ">> \o axis_word(self, p, "Z", p.z_move))

down_code(self, p) ==
    Str(<<"G01", " ">> \o axis_word(self, p, "X", p.x)
        \o <<" ">> \o axis_word(self, p, "Y", p.y)
        \o <<" ">> \o axis_word(self, p, "Z", p.z_cut))

toolchange_xy_current(p) ==
    IF p.xy_toolchange # NoneValue
    THEN <<p.xy_toolchange[1], p.xy_toolchange[2]>>
    ELSE <<p.x, p.y>>

\* The toolchange location of toolchange_code: x_toolchange and y_toolchange.
toolchange_xy(p) ==
    IF p.xy_toolchange # NoneValue
    THEN <<p.xy_toolchange[1], p.xy_toolchange[2]>>
    ELSE IF p.options.type = "Excellon"
         THEN <<p.oldx, p.oldy>>
         ELSE <<p.x, p.y>>

\* The Z of the toolchange: the start height for tool number 1, when there is one.
toolchange_z(p) ==
    IF p.tool = 1 /\ p.startz # NoneValue THEN p.startz[1] ELSE p.z_toolchange

\* format(p.toolC, '.2f') for millimetres, format(p.toolC, '.4f') otherwise.
toolC_formatted(p) ==
    IF upper(p.units) = "MM" THEN format_fixed(2, p.toolC) ELSE format_fixed(4, p.toolC)

\* no_drills: 1, replaced by the count of every entry of the tool in turn.
no_drills(p) ==
    LET tools == p.options.Tools_in_use
        entries == {i \in 1..Len(tools) : tools[i][1] = p.tool}
    IN  IF entries = {} THEN 1 ELSE tools[Max(entries)][3]

\* 'G00 X{x_toolchange} Y{x_toolchange} Z{...}' of the templates.
toolchange_move(self, p, x_toolchange, y_toolchange, z) ==
    <<"G00", " ">> \o axis_word(self, p, "X", x_toolchange)
    \o <<" ">> \o axis_word(self, p, "Y", x_toolchange)
    \o <<" ">> \o axis_word(self, p, "Z", z)

toolchange_code(self, p) ==
    LET x_toolchange == toolchange_xy(p)[1]
        y_toolchange == toolchange_xy(p)[2]
        z_toolchange == toolchange_z(p)
        plunge == IF p.f_plunge = TRUE
                  THEN <<NL>> \o toolchange_move(self, p, x_toolchange, y_toolchange, p.z_move)
                  ELSE <<>>
    IN  IF p.options.type = "Excellon"
        THEN [type |-> "str",
              text |-> <<NL, "M5", "      ", NL>>
                  \o toolchange_move(self, p, x_toolchange, y_toolchange, z_toolchange)
                  \o <<NL, "T">> \o IntChars(p.tool)
                  \o <<NL, "M6", NL>>
                  \o <<"(", "MSG, Change to Tool Dia = ">> \o toolC_formatted(p)
                  \o <<" ||| Total drills for tool T">> \o IntChars(p.tool)
                  \o <<" = ">> \o IntChars(no_drills(p)) \o <<")">>
                  \o <<NL, "M0">>
                  \o plunge,
              locals |-> <<x_toolchange, y_toolchange, z_toolchange, no_drills(p)>>]
        ELSE [type |-> "str",
              text |-> <<NL, "M5", NL>>
                  \o toolchange_move(self, p, x_toolchange, y_toolchange, z_toolchange)
                  \o <<NL, "T">> \o IntChars(p.tool)
                  \o <<NL, "M6", "    ", NL>>
                  \o <<"(", "MSG, Change to Tool Dia = ">> \o toolC_formatted(p) \o <<")">>
                  \o <<NL, "M0">>
                  \o plunge,
              locals |-> <<x_toolchange, y_toolchange, z_toolchange, 1>>]

up_to_zero_code(self, p) ==
    Str(<<"G01", " ">> \o axis_word(self, p, "X", p.x)
        \o <<" ">> \o axis_word(self, p, "Y", p.y)
        \o <<" ", "Z", "0">>)

position_code(self, p) ==
    axis_word(self, p, "X", p.x) \o <<" ">> \o axis_word(self, p, "Y", p.y)

rapid_code(self, p) ==
    Str(<<"G00", " ">> \o position_code(self, p)
        \o <<" ">> \o axis_word(self, p, "Z", p.z_move))

linear_code(self, p) ==
    Str(<<"G01", " ">> \o position_code(self, p)
        \o <<" ">> \o axis_word(self, p, "Z", p.z_cut))

end_code(self, p) ==
    LET coords_xy == p.xy_toolchange
        g == IF coords_xy # NoneValue
             THEN <<"G00", " ", "X">> \o str_float(coords_xy[1])
                  \o <<" ", "Y">> \o str_float(coords_xy[2]) \o <<NL>>
             ELSE <<"G00", " ">> \o position_code(self, p)
    IN  Str(g \o <<" ">> \o axis_word(self, p, "Z", p.z_end))

feedrate_code(self, p) ==
    Str(<<"G01", " ", "F">> \o Percent(self.feedrate_format, p.fr_decimals, p.feedrate))

z_feedrate_code(self, p) ==
    Str(<<"G01", " ", "F">> \o Percent(self.feedrate_format, p.fr_decimals, p.z_feedrate))

spindle_code(self, p) ==
    IF Truthy(p.spindlespeed)
    THEN Str(<<"M03", " ", "S">> \o str(p.spindlespeed))
    ELSE Str(<<"M03">>)

dwell_code(self, p) ==
    IF Truthy(p.dwelltime)
    THEN Str(<<"G4", " ", "P">> \o str(p.dwelltime))
    ELSE ReturnsNone

spindle_stop_code(self, p) == Str(<<"M05">>)

(***************************************************************************)
(* The export job: a context is constructed, and then the entry points are *)
(* called on it, the tool of the context changing between toolchanges.     *)
(***************************************************************************)
\* toolchange_code calls explored in one job.
MaxToolchanges == 2

\* p.toolC: the diameter of each tool.
ToolDia(tool) == Num(1) \div tool

InitExport ==
    /\ InitialProject
    /\ \E c \in Contexts, tool \in Tools :
           context = [c EXCEPT !.tool = tool, !.toolC = ToolDia(tool)]
    /\ line_xyz = line_xyz_class
    /\ call = NoCall
    /\ ntoolchanges = 0
    /\ NoShell

after_call_overwriting_z(entry, self, p) ==
    [self |-> self,
     p |-> IF entry = "toolchange_code"
           THEN [p EXCEPT !.z_toolchange = toolchange_z(p)]
           ELSE p]

\* The postprocessor object and the context after a call of an entry point:
\* no entry point assigns to an attribute of either.
after_call(entry, self, p) == [self |-> self, p |-> p]

\* An entry point is called on the context and returns.
Call(entry, value) ==
    /\ call' = [entry |-> entry, p |-> context, type |-> value.type, text |-> value.text,
                locals |-> value.locals]
    /\ context' = after_call(entry, line_xyz, context).p
    /\ line_xyz' = after_call(entry, line_xyz, context).self
    /\ ntoolchanges' = IF entry = "toolchange_code" THEN ntoolchanges + 1 ELSE ntoolchanges
    /\ UNCHANGED cutout_vars
    /\ UNCHANGED <<outline, tcl>>

call_start_code == Call("start_code", start_code(line_xyz, context))

call_startz_code == Call("startz_code", startz_code(line_xyz, context))

call_lift_code == Call("lift_code", lift_code(line_xyz, context))

call_down_code == Call("down_code", down_code(line_xyz, context))

call_toolchange_code ==
    /\ ntoolchanges < MaxToolchanges
    /\ Call("toolchange_code", toolchange_code(line_xyz, context))

call_up_to_zero_code == Call("up_to_zero_code", up_to_zero_code(line_xyz, context))

call_position_code == Call("position_code", Str(position_code(line_xyz, context)))

call_rapid_code == Call("rapid_code", rapid_code(line_xyz, context))

call_linear_code == Call("linear_code", linear_code(line_xyz, context))

call_end_code == Call("end_code", end_code(line_xyz, context))

call_feedrate_code == Call("feedrate_code", feedrate_code(line_xyz, context))

call_z_feedrate_code == Call("z_feedrate_code", z_feedrate_code(line_xyz, context))

call_spindle_code == Call("spindle_code", spindle_code(line_xyz, context))

call_dwell_code == Call("dwell_code", dwell_code(line_xyz, context))

call_spindle_stop_code == Call("spindle_stop_code", spindle_stop_code(line_xyz, context))

\* The job turns to another tool of the drill file or of the geometry.
select_tool ==
    /\ \E tool \in Tools \ {context.tool} :
           context' = [context EXCEPT !.tool = tool, !.toolC = ToolDia(tool)]
    /\ UNCHANGED <<line_xyz, call, ntoolchanges>>
    /\ UNCHANGED cutout_vars
    /\ UNCHANGED <<outline, tcl>>

NextExport ==
    \/ call_start_code
    \/ call_startz_code
    \/ call_lift_code
    \/ call_down_code
    \/ call_toolchange_code
    \/ call_up_to_zero_code
    \/ call_position_code
    \/ call_rapid_code
    \/ call_linear_code
    \/ call_end_code
    \/ call_feedrate_code
    \/ call_z_feedrate_code
    \/ call_spindle_code
    \/ call_dwell_code
    \/ call_spindle_stop_code
    \/ select_tool

SpecExport == InitExport /\ [][NextExport]_vars

(***************************************************************************)
(* Properties of the postprocessor.                                        *)
(***************************************************************************)
RECURSIVE SplitLines(_)
\* text.split('\n'): the lines of a text, the last one after its last line break.
SplitLines(text) ==
    IF \A k \in 1..Len(text) : text[k] # NL THEN <<text>>
    ELSE LET k == CHOOSE j \in 1..Len(text) :
                      text[j] = NL /\ \A i \in 1..(j - 1) : text[i] # NL
         IN  <<SubSeq(text, 1, k - 1)>> \o SplitLines(SubSeq(text, k + 1, Len(text)))

IsCommentLine(line) == Len(line) >= 2 /\ line[1] = "(" /\ line[Len(line)] = ")"

UnitLines == {<<"G20">>, <<"G21">>}

Called(entry) == call.entry = entry

\* C11: the text start_code returns ends with the unit line, 'G90' and 'G94',
\* each on a line of its own; the unit line is 'G20' for units IN and 'G21' for
\* units MM, it is the only unit line of the text, and every line before it is
\* a comment in parentheses or empty.
C11_StartCodeUnits ==
    Called("start_code") =>
        LET lines == SplitLines(call.text)
            n == Len(lines)
        IN  /\ call.type = "str"
            /\ n >= 4
            /\ lines[n] = <<>>
            /\ lines[n - 1] = <<"G94">>
            /\ lines[n - 2] = <<"G90">>
            /\ call.p.units = "IN" => lines[n - 3] = <<"G20">>
            /\ call.p.units = "MM" => lines[n - 3] = <<"G21">>
            /\ lines[n - 3] \in UnitLines
            /\ \A k \in 1..(n - 4) :
                   /\ lines[k] \notin UnitLines
                   /\ lines[k] = <<>> \/ IsCommentLine(lines[k])

C11_Witness ==
    /\ Called("start_code")
    /\ call.p.units = "IN"
    /\ <<"G20">> \in {SplitLines(call.text)[k] : k \in 1..Len(SplitLines(call.text))}

NumberChars == {Digits[d] : d \in 1..10} \cup {".", "-"}

\* The characters of the number that follows the fragment at position k of a line.
NumberAfter(line, k) ==
    LET ends == {e \in k..Len(line) : \A i \in (k + 1)..e : line[i] \in NumberChars}
    IN  SubSeq(line, k + 1, Max(ends))

\* The numbers a line gives for the letter of an axis or of a feedrate.
NumberFields(line, letter) == {NumberAfter(line, k) : k \in {i \in 1..Len(line) : line[i] = letter}}

\* The motion lines of a text: the lines of a G00 or G01 command.
MotionLines(text) ==
    {SplitLines(text)[k] : k \in {i \in 1..Len(SplitLines(text)) :
        SplitLines(text)[i] # <<>> /\ SplitLines(text)[i][1] \in {"G00", "G01"}}}

DrillingTypesOfClaim == {"Excellon", "Excellon Geometry"}

\* The location of the latest call, a toolchange, as toolchange_code computed it.
ChosenLocation == <<call.locals[1], call.locals[2]>>

\* C12, as stated: the toolchange location is xy_toolchange when it is set,
\* otherwise (oldx, oldy) for the job types Excellon and Excellon Geometry and
\* (x, y) for Gerber and Geometry.
C12_AsClaimed ==
    Called("toolchange_code") =>
        ChosenLocation =
            IF call.p.xy_toolchange # NoneValue THEN call.p.xy_toolchange
            ELSE IF call.p.options.type \in DrillingTypesOfClaim
                 THEN <<call.p.oldx, call.p.oldy>>
                 ELSE <<call.p.x, call.p.y>>

\* C12, amended: the toolchange location is xy_toolchange when it is set,
\* otherwise (oldx, oldy) for the job type Excellon alone and (x, y) for every
\* other job type, Excellon Geometry included; the X of every G00 line of the
\* toolchange is the X of that location.
C12_ToolchangeLocation ==
    Called("toolchange_code") =>
        LET expected ==
                IF call.p.xy_toolchange # NoneValue THEN call.p.xy_toolchange
                ELSE IF call.p.options.type = "Excellon"
                     THEN <<call.p.oldx, call.p.oldy>>
                     ELSE <<call.p.x, call.p.y>>
        IN  /\ ChosenLocation = expected
            /\ MotionLines(call.text) # {}
            /\ \A line \in MotionLines(call.text) :
                   NumberFields(line, "X") = {format_fixed(call.p.coords_decimals, expected[1])}

C12_Witness ==
    /\ Called("toolchange_code")
    /\ call.p.xy_toolchange = NoneValue
    /\ call.p.options.type = "Excellon Geometry"
    /\ ChosenLocation = <<call.p.x, call.p.y>>

\* The toolchange line of a toolchange text: its first motion line.
ToolchangeLine(text) == SplitLines(text)[3]

\* C13: with a start height, the first toolchange of a job has the start height
\* as its Z, whatever the number of its tool, and every later toolchange has
\* z_toolchange; with no start height every toolchange has z_toolchange.
C13_FirstToolchangeAtStartZ ==
    Called("toolchange_code") =>
        LET z == IF call.p.startz # NoneValue /\ ntoolchanges = 1
                 THEN call.p.startz[1]
                 ELSE call.p.z_toolchange
        IN  /\ call.locals[3] = z
            /\ NumberFields(ToolchangeLine(call.text), "Z")
                   = {format_fixed(call.p.coords_decimals, z)}

\* The number of decimals a number is written with.
DecimalsOf(chars) ==
    IF \A k \in 1..Len(chars) : chars[k] # "." THEN 0
    ELSE Len(chars) - (CHOOSE k \in 1..Len(chars) : chars[k] = ".")

MotionEntryPoints ==
    {"startz_code", "lift_code", "down_code", "toolchange_code", "up_to_zero_code",
     "rapid_code", "linear_code", "end_code"}

FeedrateEntryPoints == {"feedrate_code", "z_feedrate_code"}

\* C14: every X, Y and Z of the text of startz_code, lift_code, down_code,
\* toolchange_code, up_to_zero_code, rapid_code, linear_code and end_code is
\* written with exactly coords_decimals decimals, and every feedrate of
\* feedrate_code and z_feedrate_code with exactly fr_decimals decimals.
C14_CoordinateDecimals ==
    /\ call.entry \in MotionEntryPoints =>
           \A letter \in {"X", "Y", "Z"} :
               \A number \in NumberFields(call.text, letter) :
                   DecimalsOf(number) = call.p.coords_decimals
    /\ call.entry \in FeedrateEntryPoints =>
           /\ NumberFields(call.text, "F") # {}
           /\ \A number \in NumberFields(call.text, "F") :
                  DecimalsOf(number) = call.p.fr_decimals

CapabilityEntryPoints ==
    {"start_code", "startz_code", "lift_code", "down_code", "toolchange_code",
     "rapid_code", "linear_code", "end_code", "feedrate_code", "z_feedrate_code",
     "spindle_code", "dwell_code", "spindle_stop_code"}

\* C15: each entry point of the capability set returns a string, possibly the
\* empty one, on every context: with and without a start height, with and
\* without a dwell time.
C15_ReturnsString ==
    call.entry \in CapabilityEntryPoints => call.type = "str"

\* The drill counts Tools_in_use records for the tool of a context.
RecordedDrills(p) ==
    {p.options.Tools_in_use[i][3] : i \in {j \in 1..Len(p.options.Tools_in_use) :
        p.options.Tools_in_use[j][1] = p.tool}}

\* C16: in a drilling job, the drill count in the text of toolchange_code is
\* the count Tools_in_use records for the current tool, and with no entry for
\* the current tool the call fails instead of returning a text with a count.
C16_DrillCountFromToolsInUse ==
    (Called("toolchange_code") /\ call.p.options.type = "Excellon") =>
        IF RecordedDrills(call.p) = {}
        THEN call.type # "str"
        ELSE /\ call.type = "str"
             /\ {call.locals[4]} = RecordedDrills(call.p)
             /\ NumberFields(call.text, " = ")
                    = {IntChars(n) : n \in RecordedDrills(call.p)}

\* A step in which an entry point is called and returns.
EntryPointStep == call' # call \/ ntoolchanges' # ntoolchanges

\* C17: a call of an entry point leaves the Parameter Context it was given and
\* the attributes of the postprocessor object as they were, and an entry point
\* called again on the same context returns what it returned before.
C17_EntryPointsWriteNothing ==
    [][EntryPointStep =>
          /\ call'.p = context
          /\ context' = context
          /\ line_xyz' = line_xyz
          /\ (call.entry = call'.entry /\ call.p = call'.p) =>
                 (call'.type = call.type /\ call'.text = call.text)]_vars

C17_Witness ==
    /\ Called("toolchange_code")
    /\ ntoolchanges = 2
    /\ call.p.tool = 1
    /\ call.p.startz # NoneValue
    /\ context = call.p
    /\ line_xyz = line_xyz_class

\* C19: every G00 line of the text of toolchange_code, the move to the
\* toolchange location and with f_plunge the move to z_move after it, has as
\* its Y the Y of the toolchange location toolchange_code selected.
C19_ToolchangeYField ==
    Called("toolchange_code") =>
        /\ MotionLines(call.text) # {}
        /\ \A line \in MotionLines(call.text) :
               NumberFields(line, "Y")
                   = {format_fixed(call.p.coords_decimals, ChosenLocation[2])}

(***************************************************************************)
(* Further properties of the freeform cutout.                              *)
(***************************************************************************)
\* The extent of a subtracted polygon: (xmin, ymin, xmax, ymax).
ExtentOf(pts) ==
    <<Min({pts[k][1] : k \in 1..Len(pts)}), Min({pts[k][2] : k \in 1..Len(pts)}),
      Max({pts[k][1] : k \in 1..Len(pts)}), Max({pts[k][2] : k \in 1..Len(pts)})>>

\* A bridge rectangle is horizontal when it is wider than high.
IsHorizontalBridge(pts) ==
    ExtentOf(pts)[3] - ExtentOf(pts)[1] > ExtentOf(pts)[4] - ExtentOf(pts)[2]

\* A freeform run on a source that is not a geometry, run to the end.
FreeformOnNonGeometry ==
    /\ Freeform
    /\ Succeeded
    /\ run.new_object # <<>>

\* The geometry object a freeform run on a non-geometry source registered.
FreeformResult == collection[get_by_name(collection, run.new_object[1].name)]

\* C18: in a freeform cutout of a non-geometry source with margin >= 0,
\* gap size >= 0 and dia > 0, every horizontal bridge rectangle covers the X
\* range [xmin - margin - |dia/2|, xmax + margin + |dia/2|] of the buffered
\* hull, and every vertical one covers its Y range.
C18_BridgesSpanHull ==
    (/\ FreeformOnNonGeometry
     /\ run.margin.val >= 0
     /\ run.gapsize.val >= 0
     /\ run.dia.val > 0) =>
        LET reach == run.margin.val + abs(Half(run.dia.val))
            hull == <<run.bounds[1] - reach, run.bounds[2] - reach,
                      run.bounds[3] + reach, run.bounds[4] + reach>>
        IN  /\ bounds(FreeformResult) = hull
            /\ \A k \in 1..Len(run.subtract_polygon) :
                   LET e == ExtentOf(run.subtract_polygon[k].pts)
                   IN  IF IsHorizontalBridge(run.subtract_polygon[k].pts)
                       THEN e[1] <= hull[1] /\ e[3] >= hull[3]
                       ELSE e[2] <= hull[2] /\ e[4] >= hull[4]

\* The polygons of the subtract_polygon calls of the run a step makes, in order.
SubtractedBy(r) == [k \in 1..Len(r.subtract_polygon) |-> r.subtract_polygon[k].pts]

\* A step that is a freeform run ending in its success message.
FreeformSuccessStep ==
    /\ HandlerStep
    /\ run'.op = "on_freeform_cutout"
    /\ \E k \in 1..Len(inform') : inform'[k] = MsgFreeformDone

\* C20: a successful freeform cutout of a non-geometry source registers one
\* new geometry object, named after the source with '_cutout' appended, whose
\* geometry is the convex hull of the source buffered by margin + |dia/2| with
\* every bridge of the run subtracted from it, and leaves every object it found,
\* the source included, as it was; on a geometry source it registers no object,
\* appends '_cutout' to the name of the source once and subtracts every bridge
\* from the geometry of the source itself.
C20_FreeformTarget ==
    [][FreeformSuccessStep =>
          LET i == Min({k \in 1..Len(collection) : collection[k].name = run'.name})
              source == collection[i]
              outname == source.name \o "_cutout"
              polygons == SubtractedBy(run')
          IN  /\ polygons # <<>>
              /\ \A k \in 1..Len(run'.subtract_polygon) :
                     run'.subtract_polygon[k].obj = outname
              /\ IF source.kind # "geometry"
                 THEN /\ Len(collection') = Len(collection) + 1
                      /\ \A k \in 1..Len(collection) : collection'[k] = collection[k]
                      /\ run'.new_object = <<[kind |-> "geometry", name |-> outname]>>
                      /\ LET new == collection'[Len(collection')]
                         IN  /\ new.name = outname
                             /\ new.kind = "geometry"
                             /\ new.solid_geometry.shape =
                                    [kind |-> "convex_hull.buffer",
                                     of |-> source.solid_geometry.shape.of,
                                     dist |-> run'.margin.val + abs(Half(run'.dia.val)),
                                     lines |-> <<>>]
                             /\ new.solid_geometry.cuts = polygons
                 ELSE /\ Len(collection') = Len(collection)
                      /\ \A k \in (1..Len(collection)) \ {i} : collection'[k] = collection[k]
                      /\ run'.new_object = <<>>
                      /\ collection'[i].name = outname
                      /\ collection'[i].kind = "geometry"
                      /\ collection'[i].solid_geometry.shape = source.solid_geometry.shape
                      /\ collection'[i].solid_geometry.cuts
                             = source.solid_geometry.cuts \o polygons]_vars

C20_Witness ==
    /\ Freeform
    /\ Succeeded
    /\ run.name = "outline"
    /\ run.new_object = <<>>
    /\ get_by_name(collection, "outline") = None
    /\ get_by_name(collection, "outline_cutout") # None
    /\ collection[get_by_name(collection, "outline_cutout")].solid_geometry.cuts # <<>>

(***************************************************************************)
(* Further properties of the postprocessor.                                *)
(***************************************************************************)
\* The digits are a writing of the float v: as str() or with the decimals given.
Renders(chars, v, decimals) == chars \in {str_float(v), format_fixed(decimals, v)}

\* C23: the text of end_code is a single line: it starts with G00, has no line
\* break in it, and carries on that line one X and one Y, those of
\* xy_toolchange when it is set and of the current position otherwise, and one
\* Z, that of z_end, each after a space.
C23_EndCodeSingleLine ==
    Called("end_code") =>
        LET lines == SplitLines(call.text)
            line == lines[1]
            xy == IF call.p.xy_toolchange # NoneValue
                  THEN call.p.xy_toolchange
                  ELSE <<call.p.x, call.p.y>>
        IN  /\ call.type = "str"
            /\ Len(lines) = 1
            /\ \A k \in 1..Len(lines) : lines[k] # <<>> /\ lines[k][1] = "G00"
            /\ \A letter \in {"X", "Y", "Z"} :
                   \A k \in 1..Len(line) : line[k] = letter => line[k - 1] = " "
            /\ \E x \in NumberFields(line, "X") :
                   NumberFields(line, "X") = {x} /\ Renders(x, xy[1], call.p.coords_decimals)
            /\ \E y \in NumberFields(line, "Y") :
                   NumberFields(line, "Y") = {y} /\ Renders(y, xy[2], call.p.coords_decimals)
            /\ NumberFields(line, "Z") = {format_fixed(call.p.coords_decimals, call.p.z_end)}

(***************************************************************************)
(* Further properties of the rectangular cutout.                           *)
(***************************************************************************)
\* A step that is a run of on_rectangular_cutout.
RectangularStep == HandlerStep /\ run'.op = "on_rectangular_cutout"

\* The run of the step reported its success.
RectangularSuccess == \E k \in 1..Len(inform') : inform'[k] = MsgRectangularDone

\* Every object the run found is afterwards what it was: its name, its
\* solid_geometry and its multigeo flag.
ObjectsKept ==
    /\ Len(collection') >= Len(collection)
    /\ \A k \in 1..Len(collection) : collection'[k] = collection[k]

\* The run registered one new geometry object, named after the source.
OneObjectRegistered ==
    /\ Len(collection') = Len(collection) + 1
    /\ collection'[Len(collection')].name = run'.name \o "_cutout"
    /\ collection'[Len(collection')].kind = "geometry"

\* C21: a run of the rectangular cutout, successful or aborted, leaves the
\* source object as it was (name, solid_geometry, multigeo), and a run that
\* reports success has registered exactly one new geometry object, named
\* '<source name>_cutout'; a run that does not has registered none.
C21_RectangularKeepsSource ==
    [][RectangularStep =>
          /\ ObjectsKept
          /\ IF RectangularSuccess
             THEN OneObjectRegistered
             ELSE Len(collection') = Len(collection)]_vars

(***************************************************************************)
(* geo_init of the rectangular cutout as a function of what the handler    *)
(* hands it: the bounds of the source and the three parsed floats, over a  *)
(* wider range of values than the entry fields of Spec hold.               *)
(***************************************************************************)
BoundsInputs ==
    {<<Num(0), Num(0), Num(10), Num(10)>>, <<Num(0), Num(0), Num(20), Num(10)>>,
     <<Num(-5), Num(-5), Num(5), Num(0)>>}

OutlineMargins == {Num(0), Num(1)}

OutlineGapsizes == {Num(1), Num(2), Num(12), Num(30)}

OutlineDias == {Num(1), Num(2)}

InitOutline ==
    /\ InitialProject
    /\ NoExport
    /\ tcl = NoCommand
    /\ \E b \in BoundsInputs, margin \in OutlineMargins, gapsize \in OutlineGapsizes,
          dia \in OutlineDias, gaps \in RectangularGaps :
           outline = [NoOutline EXCEPT !.bounds = b, !.margin = margin,
                                       !.gapsize = gapsize, !.dia = dia, !.gaps = gaps]

\* geo_init(geo_obj, app_obj): pts, and cuts = cases[gaps].
geo_init ==
    /\ ~outline.done
    /\ LET pts == rectangular_pts(outline.bounds, outline.margin, outline.gapsize,
                                  outline.dia)
       IN  outline' = [outline EXCEPT !.done = TRUE, !.pts = pts,
                                      !.cuts = rectangular_cuts(outline.gaps, pts)]
    /\ UNCHANGED cutout_vars
    /\ UNCHANGED export_vars
    /\ UNCHANGED tcl

NextOutline == geo_init

SpecOutline == InitOutline /\ [][NextOutline]_vars

\* The rectangle of the claim: the bounds widened by real_margin = margin + dia/2.
ExpandedRectangle ==
    LET reach == outline.margin + Half(outline.dia)
    IN  <<outline.bounds[1] - reach, outline.bounds[2] - reach,
          outline.bounds[3] + reach, outline.bounds[4] + reach>>

\* A point within a rectangle, its perimeter included.
Within(pt, e) == e[1] <= pt[1] /\ pt[1] <= e[3] /\ e[2] <= pt[2] /\ pt[2] <= e[4]

\* C22: for every tool diameter > 0, margin >= 0 and gap size >= 0, also with
\* gap size + tool diameter longer than a side, each of the 12 points of the
\* rectangular cutout lies on the perimeter of the bounds widened by
\* real_margin, and no point of a chain lies outside that rectangle.
C22_PointsOnPerimeter ==
    (/\ outline.done
     /\ outline.dia > 0
     /\ outline.margin >= 0
     /\ outline.gapsize >= 0) =>
        /\ Len(outline.pts) = 12
        /\ \A k \in 1..Len(outline.pts) : OnPerimeter(outline.pts[k], ExpandedRectangle)
        /\ \A c \in 1..Len(outline.cuts) :
               \A k \in 1..Len(outline.cuts[c]) :
                   Within(outline.cuts[c][k], ExpandedRectangle)

(***************************************************************************)
(* tclCommands/TclCommandSetOrigin.py: execute(args, unnamed_args).  args  *)
(* holds the option 'auto' and the argument 'loc', each present or not;    *)
(* the text of 'loc' is a tuple of one-character strings.                  *)
(***************************************************************************)
RECURSIVE split(_, _)
\* text.split(sep): the pieces between the separators, empty ones included.
split(text, sep) ==
    IF \A k \in 1..Len(text) : text[k] # sep THEN <<text>>
    ELSE LET k == CHOOSE j \in 1..Len(text) :
                      text[j] = sep /\ \A i \in 1..(j - 1) : text[i] # sep
         IN  <<SubSeq(text, 1, k - 1)>> \o split(SubSeq(text, k + 1, Len(text)), sep)

\* [... for coord in str(args['loc']).split(",") if coord != '']
coords_of(loc) == SelectSeq(split(loc, ","), LAMBDA coord : coord # <<>>)

\* get_bounds(objs): the least x and y of the bounds of the objects.
get_bounds_min(coll) ==
    <<Min({bounds(coll[k])[1] : k \in 1..Len(coll)}),
      Min({bounds(coll[k])[2] : k \in 1..Len(coll)})>>

MsgExpectedPair(n) ==
    <<"Expected a pair of (x, y) coordinates. Got", ": ">> \o IntChars(n)

\* '[success] Tcl %s: %s' with '{0:.4f}, {0:.4f}'.format(loc[0], loc[1])
MsgOriginSet(loc) ==
    <<"[success] Tcl ", "Origin set by offsetting all loaded objects with ", ": ">>
    \o format_fixed(4, loc[1]) \o <<", ">> \o format_fixed(4, loc[1])

\* The command went on to line 92: the objects are moved by loc.
SetOrigin(args, loc) ==
    [done |-> TRUE, args |-> args, raised |-> "", tcl_error |-> <<>>, returned |-> "None",
     on_set_zero_click |-> <<[location |-> loc, noplot |-> TRUE, use_thread |-> FALSE]>>,
     inform |-> <<MsgOriginSet(loc)>>]

\* The command ended in an exception that execute does not catch.
Raised(args, exception) ==
    [done |-> TRUE, args |-> args, raised |-> exception, tcl_error |-> <<>>,
     returned |-> "", on_set_zero_click |-> <<>>, inform |-> <<>>]

CoordTexts == {<<"0">>, <<"2">>, <<"3">>, <<"-", "1">>, <<"1", ".", "5">>, <<"a">>}

\* Texts of 'loc' with no, one, two and three coordinates.
LocTexts ==
    {<<>>}
    \cup CoordTexts
    \cup {a \o <<",">> : a \in CoordTexts}
    \cup {a \o <<",">> \o b : a \in CoordTexts, b \in CoordTexts}
    \cup {a \o <<",">> \o b \o <<",">> \o c :
            a \in {<<"2">>, <<"3">>}, b \in {<<"2">>, <<"3">>}, c \in {<<"0">>, <<"3">>}}

ArgsInputs ==
    [has_auto : BOOLEAN, auto : {0, 1}, has_loc : {FALSE}, loc : {<<>>}]
    \cup [has_auto : BOOLEAN, auto : {0, 1}, has_loc : {TRUE}, loc : LocTexts]

execute ==
    /\ \E args \in ArgsInputs :
       IF args.has_auto
       THEN IF args.auto = 1
            THEN tcl' = SetOrigin(args, <<0 - get_bounds_min(collection)[1],
                                          0 - get_bounds_min(collection)[2]>>)
            ELSE tcl' = SetOrigin(args, <<0, 0>>)
       ELSE IF args.has_loc
       THEN LET coords == coords_of(args.loc)
                location == [k \in 1..Len(coords) |-> float(coords[k]).val]
            IN  IF \E k \in 1..Len(coords) : ~float(coords[k]).ok
                THEN \* eval(coord) of a text that is no expression of a number
                     tcl' = Raised(args, "NameError")
                ELSE IF Len(location) < 2
                THEN \* location[0] or location[1] of lines 82-83
                     tcl' = Raised(args, "IndexError")
                ELSE IF Len(location) # 2
                THEN \* raise_tcl_error raises, or reports the error and returns
                     \E raises \in BOOLEAN :
                         tcl' = [Raised(args, IF raises THEN "TclErrorException" ELSE "")
                                     EXCEPT !.tcl_error = MsgExpectedPair(Len(location)),
                                            !.returned = IF raises THEN "" ELSE "fail"]
                ELSE tcl' = SetOrigin(args, <<location[1], location[2]>>)
       ELSE tcl' = SetOrigin(args, <<0, 0>>)
    /\ UNCHANGED cutout_vars
    /\ UNCHANGED export_vars
    /\ UNCHANGED outline

InitTcl ==
    /\ InitialProject
    /\ NoExport
    /\ NoShell

NextTcl == execute

SpecTcl == InitTcl /\ [][NextTcl]_vars

\* The command was given 'loc' and no 'auto', and every piece of 'loc' between
\* the commas that is not empty is a number.
LocCommand ==
    /\ tcl.done
    /\ tcl.args.has_loc
    /\ ~tcl.args.has_auto
    /\ \A k \in 1..Len(coords_of(tcl.args.loc)) : float(coords_of(tcl.args.loc)[k]).ok

\* C24: set_origin with 'loc' and no 'auto': when 'loc' does not hold exactly
\* two coordinates, the Tcl error 'Expected a pair of (x, y) coordinates' is
\* raised, the command gives 'fail' where it returns at all, and
\* on_set_zero_click is not called; when it holds exactly two, x and y,
\* on_set_zero_click is called once, with location [x, y].
C24_SetOriginPair ==
    LocCommand =>
        LET coords == coords_of(tcl.args.loc) IN
        IF Len(coords) # 2
        THEN /\ tcl.tcl_error = MsgExpectedPair(Len(coords))
             /\ tcl.raised \in {"", "TclErrorException"}
             /\ tcl.raised = "" => tcl.returned = "fail"
             /\ tcl.on_set_zero_click = <<>>
        ELSE /\ tcl.tcl_error = <<>>
             /\ tcl.raised = ""
             /\ Len(tcl.on_set_zero_click) = 1
             /\ tcl.on_set_zero_click[1].location
                    = <<float(coords[1]).val, float(coords[2]).val>>

====
